---- MODULE Spec2Model ----
(***************************************************************************)
(* DragonOS: VirtIO PCI probing and dispatch (driver/virtio/virtio.rs),    *)
(* the bound-device list of a PCI driver (driver/virtio/driver.rs,         *)
(* driver/pci_driver/test/pt_driver.rs) and the weak back-references of a  *)
(* PCI device (driver/pci_driver/test/pt_device.rs).                       *)
(*                                                                         *)
(* Seven state machines share this module; each has its own specification  *)
(* that leaves the variables of the others untouched:                      *)
(*   SpecProbe / FairSpecProbe   virtio_probe and everything it calls      *)
(*   SpecDrv                     add_device / delete_device under threads  *)
(*   SpecDev                     bus() / class() / driver(), the setters   *)
(*                               and the can_match gate of a device        *)
(*   SpecPci                     the PciDriver / Driver / KObject methods  *)
(*                               of a driver, one call at a time           *)
(*   SpecBind                    the binding engine over set_driver and    *)
(*                               add_device / delete_device                *)
(*   SpecAttr                    the Hello attribute: show / store         *)
(*   SpecLock                    the data lock and the state lock of a     *)
(*                               KObject under threads                     *)
(***************************************************************************)
EXTENDS Integers, Sequences, FiniteSets, TLC

VARIABLES
    \* ---- virtio_probe ----
    pciList,      \* PCI_DEVICE_LINKEDLIST: sequence of [vendor_id, device_id]
    pciLock,      \* the RwLock around it: "free" or "write"
    pc,           \* position of the thread running virtio_probe
    virtio_list,  \* the candidates still to iterate (positions in pciList)
    add,          \* the local probe index
    cur,          \* position of the candidate of the current iteration (0: none)
    transport,    \* the transport constructed in the current iteration
    attempts,     \* log: every return of PciTransport::new
    inits,        \* log: every call of virtio_device_init
    calls,        \* log: every call of virtio_blk / virtio_net
    errLog,       \* log: every error!() line
    warnLog,      \* log: every warn!() line
    mmio_result,  \* what the platform MMIO probing step reported ("none": not run)
    probe_result, \* what virtio_probe returned to its caller ("none": not returned)
    \* ---- a PCI driver (TestDriver or VirtIODriver) ----
    drvKind,      \* which implementation the driver under test is
    devices,      \* InnerPciDriver.devices: sequence of device identities
    inner_lock,   \* holder of the driver's `inner` lock (0: free)
    tpc,          \* per thread: position inside add_device / delete_device
    targ,         \* per thread: the device passed to the call in progress
    tbefore,      \* per thread: `devices` as found when the lock was taken
    ops,          \* the last two calls completed on the driver, oldest first
    \* ---- a PCI device (TestDevice) and what its weak fields refer to ----
    inner,        \* InnerPciDevice: bus, class, driver (0: None, i: Weak to object i)
    owner,        \* per kind: the objects whose structural owner still holds its Arc
    strong,       \* per kind and object: the strong count of its Arc
    destroyed,    \* per kind: the objects whose strong count has reached 0
    held,         \* the strong handle the caller got from class() / driver(), or <<>>
    ret,          \* the last Device call on the device and what it returned
    requested,    \* the argument of the last set_can_match call ("none": no call yet)
    \* ---- the Hello attribute of TestDevice and its caller ----
    abuf,         \* the caller-owned byte buffer handed to show / store
    apc,          \* position of the calling thread: "ready", "panic" or "idle"
    aret,         \* the last Attribute call and what it returned
    \* ---- a PCI driver called by one thread at a time ----
    pd,           \* InnerPciDriver: every field behind the driver's `inner` lock
    pstate,       \* the KObjectState behind the driver's `kobj_state` lock
    plast,        \* the last call on the driver, with what it found and returned
    psnap,        \* the results of locked_dynid_list() since the last add_dynid
                  \* (the last two of them, oldest first)
    \* ---- the binding engine, the devices and the drivers it binds ----
    bdriver,      \* per device: InnerPciDevice.driver (0: None, r: Weak to driver r)
    blist,        \* per driver: InnerPciDriver.devices
    epc,          \* the engine: its position, the device and driver in hand, and
                  \* which of the two updates it makes first
    \* ---- the two locks of one KObject and the threads calling into it ----
    lkind,        \* the implementation: "TestDevice", "TestDriver" or "VirtIODriver"
    locks,        \* per lock ("data": inner, "state": kobj_state): writer and readers
    lth,          \* per thread: the call in progress and the state guard it was handed
    ldone         \* the last call that returned

probeOut == <<mmio_result, probe_result>>

probeVars == <<pciList, pciLock, pc, virtio_list, add, cur, transport,
               attempts, inits, calls, errLog, warnLog, probeOut>>

drvVars == <<drvKind, devices, inner_lock, tpc, targ, tbefore, ops>>

devVars == <<inner, owner, strong, destroyed, held, ret, requested>>

attrVars == <<abuf, apc, aret>>

pciVars == <<pd, pstate, plast, psnap>>

bindVars == <<bdriver, blist, epc>>

lockVars == <<lkind, locks, lth, ldone>>

vars == <<probeVars, drvVars, devVars, attrVars, pciVars, bindVars, lockVars>>

\* what each machine leaves alone
notProbe == <<drvVars, devVars, attrVars, pciVars, bindVars, lockVars>>
notDrv == <<probeVars, devVars, attrVars, pciVars, bindVars, lockVars>>
notDev == <<probeVars, drvVars, attrVars, pciVars, bindVars, lockVars>>
notAttr == <<probeVars, drvVars, devVars, pciVars, bindVars, lockVars>>
notPci == <<probeVars, drvVars, devVars, attrVars, bindVars, lockVars>>
notBind == <<probeVars, drvVars, devVars, attrVars, pciVars, lockVars>>
notLock == <<probeVars, drvVars, devVars, attrVars, pciVars, bindVars>>

-----------------------------------------------------------------------------
(* Bounds *)

\* longest PCI device list explored
MaxPci == 2
\* number of distinct devices (Arc identities) offered to a driver
NumDevices == 3
\* number of threads calling into one driver
NumThreads == 2
\* number of drivers, buses and classes a device's weak fields can refer to
NumDrivers == 2
NumBuses == 1
NumClasses == 1
\* longest buffer handed to show / store ("Hello Pci" needs 9 bytes)
MaxBuf == 10
\* longest dynamic-ID list explored
MaxDynIds == 2

-----------------------------------------------------------------------------
(* Program constants *)

\* 0x1AF4, the vendor searched for (and 6900 in the debugging branch)
VIRTIO_VENDOR_ID == 6900
\* 0x1000, lowest VirtIO device ID
VIRTIO_DEVICE_ID_MIN == 4096
\* 0x103F, highest VirtIO device ID
VIRTIO_DEVICE_ID_MAX == 4159
\* the device ID singled out by the debugging branches
DEBUG_DEVICE_ID == 4097

\* DeviceType as reported by Transport::device_type(); "Other" stands for
\* every value the match in virtio_device_init leaves to its last arm.
DeviceTypes == {"Block", "Network", "GPU", "Input", "Other"}

\* What PciTransport::new can return: Err, or Ok with a transport whose
\* device_type() is one of DeviceTypes.
Outcomes == {"Err"} \cup DeviceTypes

\* The PCI functions the list is drawn from: both ends of the VirtIO range,
\* one ID on either side of it, the debugging ID, another vendor, and a
\* function of the VirtIO vendor that is not a general device (a bridge).
\* `standard` says whether the entry is a PciDeviceStructureGeneralDevice.
PciKinds ==
    { [vendor_id |-> VIRTIO_VENDOR_ID, device_id |-> d, standard |-> TRUE] :
        d \in { VIRTIO_DEVICE_ID_MIN - 1, VIRTIO_DEVICE_ID_MIN, DEBUG_DEVICE_ID,
                VIRTIO_DEVICE_ID_MAX, VIRTIO_DEVICE_ID_MAX + 1 } }
    \cup { [vendor_id |-> 32902, device_id |-> VIRTIO_DEVICE_ID_MIN, standard |-> TRUE] }
    \cup { [vendor_id |-> VIRTIO_VENDOR_ID, device_id |-> VIRTIO_DEVICE_ID_MIN,
             standard |-> FALSE] }

SeqsUpTo(S, n) == UNION { [1..k -> S] : k \in 0..n }

-----------------------------------------------------------------------------
(* Pure helpers *)

\* the order left as it is
Reverse_Identity(s) == s
RECURSIVE Reverse(_)
\* Vec::reverse
Reverse(s) == IF s = <<>> THEN <<>> ELSE Append(Reverse(Tail(s)), Head(s))

Positions(list) == [i \in 1..Len(list) |-> i]

\* the entries of the list with the given vendor, in list order
get_pci_device_structures_mut_by_vendor_id(list, vendor) ==
    LET Match(i) == list[i].vendor_id = vendor
    IN  SelectSeq(Positions(list), Match)

\* PciDeviceStructure::as_standard_device_mut: Some for a general device,
\* None for any other header type
as_standard_device_mut(list, i) == IF list[i].standard THEN "Some" ELSE "None"

\* virtio_device_search with the upper end of the range excluded
virtio_device_search_ExclusiveMax(list) ==
    LET result == get_pci_device_structures_mut_by_vendor_id(list, VIRTIO_VENDOR_ID)
        InRange(i) == /\ list[i].device_id >= VIRTIO_DEVICE_ID_MIN
                      /\ list[i].device_id < VIRTIO_DEVICE_ID_MAX
    IN  SelectSeq(result, InRange)
\* virtio_device_search: of those, the ones with 0x1000 <= device_id <= 0x103F
virtio_device_search(list) ==
    LET result == get_pci_device_structures_mut_by_vendor_id(list, VIRTIO_VENDOR_ID)
        InRange(i) == /\ list[i].device_id >= VIRTIO_DEVICE_ID_MIN
                      /\ list[i].device_id <= VIRTIO_DEVICE_ID_MAX
    IN  SelectSeq(result, InRange)

\* virtio_device_search unwraps as_standard_device_mut() of every entry of
\* the vendor, before it looks at the device ID
SearchPanics(list) ==
    LET result == get_pci_device_structures_mut_by_vendor_id(list, VIRTIO_VENDOR_ID)
    IN  \E k \in 1..Len(result) : as_standard_device_mut(list, result[k]) = "None"

\* the condition guarding both debugging branches of virtio_probe_pci
IsDebugDevice(i) ==
    /\ pciList[i].vendor_id = VIRTIO_VENDOR_ID
    /\ pciList[i].device_id = DEBUG_DEVICE_ID

NoTransport == [pos |-> 0, dtype |-> "none"]

-----------------------------------------------------------------------------
(* Driver::add_device / delete_device of TestDriver and VirtIODriver *)

Devices == 1..NumDevices
Threads == 1..NumThreads
DriverKinds == {"TestDriver", "VirtIODriver"}

\* KObject::name() of a TestDevice: the same for every instance
name(d) == "PciTest"

\* comparison by value instead of identity
ValueEq(a, b) == name(a) = name(b)
\* Arc::ptr_eq: the two handles are the same allocation
PtrEq(a, b) == a = b

\* the check never finds the device
AlreadyBound_Never(list, d) == FALSE
\* guard.devices.iter().any(|dev| Arc::ptr_eq(dev, &device))
AlreadyBound(list, d) == \E i \in 1..Len(list) : PtrEq(list[i], d)

\* the predicate of retain inverted: keeps the device, drops the others
RetainOthers_Inverted(list, d) ==
    LET Keep(x) == PtrEq(x, d) IN SelectSeq(list, Keep)
\* guard.devices.retain(|dev| !Arc::ptr_eq(dev, device))
RetainOthers(list, d) ==
    LET Keep(x) == ~PtrEq(x, d) IN SelectSeq(list, Keep)

\* no mutual exclusion
LockFree_NoExclusion == TRUE
\* self.inner.lock() (SpinLock, TestDriver) and self.inner.write() (RwLock,
\* VirtIODriver) both return only when no other thread holds the lock
LockFree == inner_lock = 0

LastTwo(s) == IF Len(s) <= 2 THEN s ELSE SubSeq(s, Len(s) - 1, Len(s))

\* a call returns: its guard is dropped and the call joins the history
Completed(t, op, after) ==
    /\ inner_lock' = 0
    /\ tpc' = [tpc EXCEPT ![t] = "idle"]
    /\ targ' = [targ EXCEPT ![t] = 0]
    /\ tbefore' = [tbefore EXCEPT ![t] = <<>>]
    /\ ops' = LastTwo(Append(ops, [op |-> op, dev |-> targ[t], thread |-> t,
                                   before |-> tbefore[t], after |-> after]))

\* TestDriver::new / VirtIODriver::new
InitDrv ==
    /\ drvKind \in DriverKinds
    /\ devices = <<>>
    /\ inner_lock = 0
    /\ tpc = [t \in Threads |-> "idle"]
    /\ targ = [t \in Threads |-> 0]
    /\ tbefore = [t \in Threads |-> <<>>]
    /\ ops = <<>>

\* no driver is under test
IdleDrv ==
    /\ drvKind = "none"
    /\ devices = <<>>
    /\ inner_lock = 0
    /\ tpc = [t \in Threads |-> "idle"]
    /\ targ = [t \in Threads |-> 0]
    /\ tbefore = [t \in Threads |-> <<>>]
    /\ ops = <<>>

\* add_device(d): let mut guard = self.inner.lock() / .write()
AddDeviceLock(t, d) ==
    /\ tpc[t] = "idle"
    /\ LockFree
    /\ inner_lock' = t
    /\ tpc' = [tpc EXCEPT ![t] = "add_check"]
    /\ targ' = [targ EXCEPT ![t] = d]
    /\ tbefore' = [tbefore EXCEPT ![t] = devices]
    /\ UNCHANGED <<drvKind, devices, ops, notDrv>>

\* add_device: the check for the device, and the early return
AddDeviceCheck(t) ==
    /\ tpc[t] = "add_check"
    /\ IF AlreadyBound(devices, targ[t])
       THEN /\ Completed(t, "add", devices)
       ELSE /\ tpc' = [tpc EXCEPT ![t] = "add_push"]
            /\ UNCHANGED <<inner_lock, ops, targ, tbefore>>
    /\ UNCHANGED <<drvKind, devices, notDrv>>

\* the device is put in front of the list
AddDevicePush_Front(t) ==
    /\ tpc[t] = "add_push"
    /\ devices' = <<targ[t]>> \o devices
    /\ Completed(t, "add", devices')
    /\ UNCHANGED <<drvKind, notDrv>>
\* add_device: guard.devices.push(device), and the return
AddDevicePush(t) ==
    /\ tpc[t] = "add_push"
    /\ devices' = Append(devices, targ[t])
    /\ Completed(t, "add", devices')
    /\ UNCHANGED <<drvKind, notDrv>>

\* delete_device(d): let mut guard = self.inner.lock() / .write()
DeleteDeviceLock(t, d) ==
    /\ tpc[t] = "idle"
    /\ LockFree
    /\ inner_lock' = t
    /\ tpc' = [tpc EXCEPT ![t] = "del_retain"]
    /\ targ' = [targ EXCEPT ![t] = d]
    /\ tbefore' = [tbefore EXCEPT ![t] = devices]
    /\ UNCHANGED <<drvKind, devices, ops, notDrv>>

\* delete_device: the retain, and the return
DeleteDeviceRetain(t) ==
    /\ tpc[t] = "del_retain"
    /\ devices' = RetainOthers(devices, targ[t])
    /\ Completed(t, "delete", devices')
    /\ UNCHANGED <<drvKind, notDrv>>

NextDrv ==
    \/ \E t \in Threads, d \in Devices : AddDeviceLock(t, d)
    \/ \E t \in Threads : AddDeviceCheck(t)
    \/ \E t \in Threads : AddDevicePush(t)
    \/ \E t \in Threads, d \in Devices : DeleteDeviceLock(t, d)
    \/ \E t \in Threads : DeleteDeviceRetain(t)

-----------------------------------------------------------------------------
(* Device::bus / class / driver and their setters on TestDevice *)

Kinds == {"bus", "class", "driver"}
Objs(k) == CASE k = "bus" -> 1..NumBuses
             [] k = "class" -> 1..NumClasses
             [] k = "driver" -> 1..NumDrivers

NoRet == [fn |-> "none", field |-> 0, stale |-> FALSE, val |-> 0, handle |-> "none"]

\* the weak reference w refers to an object that has been destroyed
Stale(k, w) == w # 0 /\ w \in destroyed[k]

\* an upgrade that succeeds whatever the strong count
Upgrade_IgnoresCount(k, w) == w
\* Option<Weak<_>>::clone()?.upgrade(): the referent if its strong count is
\* not 0, else none (0)
Upgrade(k, w) == IF w # 0 /\ strong[k][w] > 0 THEN w ELSE 0

\* the field is left as it is
CompactedClass_Kept(w, r) == w
\* class(): if r.is_none() { guard.class = None; }
CompactedClass(w, r) == IF r = 0 THEN 0 ELSE w

\* a successful upgrade adds one strong handle, which the caller holds; the
\* accessors are called by a caller that holds none (held = <<>>), which keeps
\* the strong counts bounded
Take(k, r) ==
    IF r # 0
    THEN /\ strong' = [strong EXCEPT ![k][r] = @ + 1]
         /\ held' = <<k, r>>
    ELSE UNCHANGED <<strong, held>>

\* dropping one Arc: the object is destroyed when its last handle goes
Release(k, i) ==
    /\ strong' = [strong EXCEPT ![k][i] = @ - 1]
    /\ destroyed' = IF strong[k][i] = 1
                    THEN [destroyed EXCEPT ![k] = @ \cup {i}]
                    ELSE destroyed

\* TestDevice::new: InnerPciDevice::default(), every referent alive and owned
InitDev ==
    /\ inner = [bus |-> 0, class |-> 0, driver |-> 0]
    /\ owner = [k \in Kinds |-> Objs(k)]
    /\ strong = [k \in Kinds |-> [i \in Objs(k) |-> 1]]
    /\ destroyed = [k \in Kinds |-> {}]
    /\ held = <<>>
    /\ ret = NoRet
    /\ requested = "none"

\* no device is under test
IdleDev ==
    /\ inner = [bus |-> 0, class |-> 0, driver |-> 0]
    /\ owner = [k \in Kinds |-> {}]
    /\ strong = [k \in Kinds |-> [i \in Objs(k) |-> 0]]
    /\ destroyed = [k \in Kinds |-> {}]
    /\ held = <<>>
    /\ ret = NoRet
    /\ requested = "none"

SetRet(f, v) == [fn |-> f, field |-> v, stale |-> FALSE, val |-> 0, handle |-> "none"]

\* set_bus(bus): self.inner.write().set_bus(bus)
set_bus(v) ==
    /\ inner' = [inner EXCEPT !.bus = v]
    /\ ret' = SetRet("set_bus", v)
    /\ UNCHANGED <<owner, strong, destroyed, held, requested, notDev>>

\* set_class(class): self.inner.write().set_class(class)
set_class(v) ==
    /\ inner' = [inner EXCEPT !.class = v]
    /\ ret' = SetRet("set_class", v)
    /\ UNCHANGED <<owner, strong, destroyed, held, requested, notDev>>

\* set_driver(driver): self.inner.write().set_driver(driver)
set_driver(v) ==
    /\ inner' = [inner EXCEPT !.driver = v]
    /\ ret' = SetRet("set_driver", v)
    /\ UNCHANGED <<owner, strong, destroyed, held, requested, notDev>>

\* bus(): self.inner.read().bus(), the stored Option<Weak<dyn Bus>> cloned
bus ==
    /\ held = <<>>
    /\ ret' = [fn |-> "bus", field |-> inner.bus, stale |-> Stale("bus", inner.bus),
               val |-> inner.bus, handle |-> IF inner.bus # 0 THEN "weak" ELSE "none"]
    /\ UNCHANGED <<inner, owner, strong, destroyed, held, requested, notDev>>

\* class(): upgrade under the write lock, clearing the field on failure
class ==
    /\ held = <<>>
    /\ LET w == inner.class
           r == Upgrade("class", w)
       IN  /\ ret' = [fn |-> "class", field |-> w, stale |-> Stale("class", w),
                      val |-> r, handle |-> IF r # 0 THEN "strong" ELSE "none"]
           /\ inner' = [inner EXCEPT !.class = IF w = 0 THEN 0 ELSE CompactedClass(w, r)]
           /\ Take("class", r)
    /\ UNCHANGED <<owner, destroyed, requested, notDev>>

\* driver(): self.inner.read().driver.clone()?.upgrade()
driver ==
    /\ held = <<>>
    /\ LET w == inner.driver
           r == Upgrade("driver", w)
       IN  /\ ret' = [fn |-> "driver", field |-> w, stale |-> Stale("driver", w),
                      val |-> r, handle |-> IF r # 0 THEN "strong" ELSE "none"]
           /\ Take("driver", r)
    /\ UNCHANGED <<inner, owner, destroyed, requested, notDev>>

\* a bool as the val of a call record
BoolVal(b) == IF b THEN 1 ELSE 0

\* can_match(): the body is the literal `true`
can_match ==
    /\ held = <<>>
    /\ ret' = [fn |-> "can_match", field |-> 0, stale |-> FALSE,
               val |-> BoolVal(TRUE), handle |-> "none"]
    /\ UNCHANGED <<inner, owner, strong, destroyed, held, requested, notDev>>

\* set_can_match(_can_match): the body is empty, the argument is dropped;
\* `requested` only remembers what the caller asked for
set_can_match(b) ==
    /\ requested' = IF b THEN "true" ELSE "false"
    /\ ret' = SetRet("set_can_match", BoolVal(b))
    /\ UNCHANGED <<inner, owner, strong, destroyed, held, notDev>>

\* the caller drops the Arc that class() / driver() returned
DropHandle ==
    /\ held # <<>>
    /\ Release(held[1], held[2])
    /\ held' = <<>>
    /\ ret' = NoRet
    /\ UNCHANGED <<inner, owner, requested, notDev>>

\* the structural owner of object i (class registry, bus, driver list) drops it
DropOwner(k, i) ==
    /\ i \in owner[k]
    /\ owner' = [owner EXCEPT ![k] = @ \ {i}]
    /\ Release(k, i)
    /\ UNCHANGED <<inner, held, ret, requested, notDev>>

NextDev ==
    \/ \E v \in {0} \cup Objs("bus") : set_bus(v)
    \/ \E v \in {0} \cup Objs("class") : set_class(v)
    \/ \E v \in {0} \cup Objs("driver") : set_driver(v)
    \/ bus
    \/ class
    \/ driver
    \/ can_match
    \/ \E b \in BOOLEAN : set_can_match(b)
    \/ DropHandle
    \/ \E k \in Kinds : \E i \in Objs(k) : DropOwner(k, i)

-----------------------------------------------------------------------------
(* impl PciDriver / Driver / KObject for VirtIODriver (TestDriver has the   *)
(* same bodies behind a SpinLock), one call at a time                       *)

\* the match rules (PciDeviceID values) a caller may add
DynIds == {1, 2}

\* the devices (Arc identities) a caller may pass
PciDevices == {1, 2}

\* an Option field: 0 is None, 1 is Some(the one object of that type)
Opt == {0, 1}

KObjectStates == {"default", "INITIALIZED"}

\* the rule is pushed only if no equal rule is in the list
insert_id_Dedup(in, id) ==
    IF \E k \in 1..Len(in.locked_dynid_list) : in.locked_dynid_list[k] = id
    THEN in
    ELSE [in EXCEPT !.locked_dynid_list = Append(@, id)]
\* InnerPciDriver::insert_id: self.locked_dynid_list.push(Arc::new(id))
insert_id(in, id) == [in EXCEPT !.locked_dynid_list = Append(@, id)]

\* InnerPciDriver::id_list: &self.locked_dynid_list
id_list(in) == in.locked_dynid_list

\* the record of a call: what it was, its argument and result, the device
\* list as the call found it and, for add_dynid, the dynamic-ID list as well
Hooks == {"probe", "remove", "resume", "shutdown", "suspend"}

Call(op, arg, res) ==
    [op |-> op, arg |-> arg, res |-> res,
     dyn_before |-> IF op = "add_dynid" THEN pd.locked_dynid_list ELSE <<>>,
     dev_before |-> pd.devices]

NoCall == [op |-> "none", arg |-> 0, res |-> "none",
           dyn_before |-> <<>>, dev_before |-> <<>>]

\* VirtIODriver::new / TestDriver::new
InitPci ==
    /\ pd = [ktype |-> 0, kset |-> 0, parent |-> 0, kernfs_inode |-> 0,
             devices |-> <<>>, bus |-> 0, locked_dynid_list |-> <<>>]
    /\ pstate = "default"
    /\ plast = NoCall
    /\ psnap = <<>>

\* no driver is under test
IdlePci ==
    /\ pd = [ktype |-> 0, kset |-> 0, parent |-> 0, kernfs_inode |-> 0,
             devices |-> <<>>, bus |-> 0, locked_dynid_list |-> <<>>]
    /\ pstate = "idle"
    /\ plast = NoCall
    /\ psnap = <<>>

PciReady == pstate # "idle"

\* add_dynid(id): self.inner.write().insert_id(id); Ok(())
add_dynid(id) ==
    /\ PciReady
    /\ Len(pd.locked_dynid_list) < MaxDynIds
    /\ pd' = insert_id(pd, id)
    /\ plast' = Call("add_dynid", id, "Ok")
    /\ psnap' = <<>>
    /\ UNCHANGED <<pstate, notPci>>

\* locked_dynid_list(): Some(self.inner.read().id_list().clone())
locked_dynid_list ==
    /\ PciReady
    /\ plast' = Call("locked_dynid_list", 0, "Some")
    /\ psnap' = LastTwo(Append(psnap, id_list(pd)))
    /\ UNCHANGED <<pd, pstate, notPci>>

\* the hook also takes the device off the list
remove_Unbinds(d) ==
    /\ PciReady
    /\ pd' = [pd EXCEPT !.devices = RetainOthers(@, d)]
    /\ plast' = Call("remove", 0, "Ok")
    /\ UNCHANGED <<pstate, psnap, notPci>>
\* remove(device): Ok(())
remove(d) ==
    /\ PciReady
    /\ plast' = Call("remove", 0, "Ok")
    /\ UNCHANGED <<pd, pstate, psnap, notPci>>

\* probe(device, id): Ok(())
probe(d, id) ==
    /\ PciReady
    /\ plast' = Call("probe", 0, "Ok")
    /\ UNCHANGED <<pd, pstate, psnap, notPci>>

\* resume(device): Ok(())
resume(d) ==
    /\ PciReady
    /\ plast' = Call("resume", 0, "Ok")
    /\ UNCHANGED <<pd, pstate, psnap, notPci>>

\* shutdown(device): Ok(())
shutdown(d) ==
    /\ PciReady
    /\ plast' = Call("shutdown", 0, "Ok")
    /\ UNCHANGED <<pd, pstate, psnap, notPci>>

\* suspend(device): Ok(())
suspend(d) ==
    /\ PciReady
    /\ plast' = Call("suspend", 0, "Ok")
    /\ UNCHANGED <<pd, pstate, psnap, notPci>>

\* add_device(device), the whole call under the write lock
add_device(d) ==
    /\ PciReady
    /\ pd' = [pd EXCEPT !.devices = IF AlreadyBound(@, d) THEN @ ELSE Append(@, d)]
    /\ plast' = Call("add_device", 0, "unit")
    /\ UNCHANGED <<pstate, psnap, notPci>>

\* delete_device(device), the whole call under the write lock
delete_device(d) ==
    /\ PciReady
    /\ pd' = [pd EXCEPT !.devices = RetainOthers(@, d)]
    /\ plast' = Call("delete_device", 0, "unit")
    /\ UNCHANGED <<pstate, psnap, notPci>>

\* the call replaces the inner struct by a fresh one that holds the bus
Driver_set_bus_Fresh(b) ==
    /\ PciReady
    /\ pd' = [ktype |-> 0, kset |-> 0, parent |-> 0, kernfs_inode |-> 0,
              devices |-> <<>>, bus |-> b, locked_dynid_list |-> <<>>]
    /\ plast' = Call("set_bus", 0, "unit")
    /\ UNCHANGED <<pstate, psnap, notPci>>
\* Driver::set_bus(bus): self.inner.write().bus = bus
Driver_set_bus(b) ==
    /\ PciReady
    /\ pd' = [pd EXCEPT !.bus = b]
    /\ plast' = Call("set_bus", 0, "unit")
    /\ UNCHANGED <<pstate, psnap, notPci>>

\* set_inode(inode): self.inner.write().kernfs_inode = inode
set_inode(v) ==
    /\ PciReady
    /\ pd' = [pd EXCEPT !.kernfs_inode = v]
    /\ plast' = Call("set_inode", 0, "unit")
    /\ UNCHANGED <<pstate, psnap, notPci>>

\* set_parent(parent): self.inner.write().parent = parent
set_parent(v) ==
    /\ PciReady
    /\ pd' = [pd EXCEPT !.parent = v]
    /\ plast' = Call("set_parent", 0, "unit")
    /\ UNCHANGED <<pstate, psnap, notPci>>

\* set_kset(kset): self.inner.write().kset = kset
set_kset(v) ==
    /\ PciReady
    /\ pd' = [pd EXCEPT !.kset = v]
    /\ plast' = Call("set_kset", 0, "unit")
    /\ UNCHANGED <<pstate, psnap, notPci>>

\* set_kobj_type(ktype): self.inner.write().ktype = ktype
set_kobj_type(v) ==
    /\ PciReady
    /\ pd' = [pd EXCEPT !.ktype = v]
    /\ plast' = Call("set_kobj_type", 0, "unit")
    /\ UNCHANGED <<pstate, psnap, notPci>>

\* set_name(_name): does nothing
set_name ==
    /\ PciReady
    /\ plast' = Call("set_name", 0, "unit")
    /\ UNCHANGED <<pd, pstate, psnap, notPci>>

\* set_kobj_state(state): *self.kobj_state.write() = state
set_kobj_state(st) ==
    /\ PciReady
    /\ pstate' = st
    /\ plast' = Call("set_kobj_state", 0, "unit")
    /\ UNCHANGED <<pd, psnap, notPci>>

NextPci ==
    \/ \E id \in DynIds : add_dynid(id)
    \/ locked_dynid_list
    \/ \E d \in PciDevices, id \in DynIds : probe(d, id)
    \/ \E d \in PciDevices : remove(d)
    \/ \E d \in PciDevices : resume(d)
    \/ \E d \in PciDevices : shutdown(d)
    \/ \E d \in PciDevices : suspend(d)
    \/ \E d \in PciDevices : add_device(d)
    \/ \E d \in PciDevices : delete_device(d)
    \/ \E b \in {0} \cup (1..NumBuses) : Driver_set_bus(b)
    \/ \E v \in Opt : set_inode(v)
    \/ \E v \in Opt : set_parent(v)
    \/ \E v \in Opt : set_kset(v)
    \/ \E v \in Opt : set_kobj_type(v)
    \/ set_name
    \/ \E st \in KObjectStates : set_kobj_state(st)

-----------------------------------------------------------------------------
(* Binding: the engine of spec section 4.4 over Device::set_driver and      *)
(* Driver::add_device / delete_device. Each of the three calls takes the    *)
(* lock of its own object for its own duration, so every state between two  *)
(* calls is visible to the other threads.                                   *)

Drivers == 1..NumDrivers

EngineOrders == {"device_first", "driver_first"}

EngineIdle == [pc |-> "idle", d |-> 0, r |-> 0, order |-> "none"]

\* devices and drivers registered, nothing bound
InitBind ==
    /\ bdriver = [d \in Devices |-> 0]
    /\ blist = [r \in Drivers |-> <<>>]
    /\ epc = EngineIdle

\* no engine is running
IdleBind ==
    /\ bdriver = [d \in Devices |-> 0]
    /\ blist = [r \in Drivers |-> <<>>]
    /\ epc = [pc |-> "off", d |-> 0, r |-> 0, order |-> "none"]

\* the engine finds a compatible driver r for the unbound device d
EngineMatch(d, r, o) ==
    /\ epc.pc = "idle"
    /\ bdriver[d] = 0
    /\ epc' = [pc |-> "probe", d |-> d, r |-> r, order |-> o]
    /\ UNCHANGED <<bdriver, blist, notBind>>

\* the engine calls probe(device, id), which returns Ok(())
EngineProbe ==
    /\ epc.pc = "probe"
    /\ epc' = [epc EXCEPT !.pc = "bind"]
    /\ UNCHANGED <<bdriver, blist, notBind>>

\* the engine starts to detach the bound device d from its driver
EngineDetach(d, o) ==
    /\ epc.pc = "idle"
    /\ bdriver[d] # 0
    /\ epc' = [pc |-> "unbind", d |-> d, r |-> bdriver[d], order |-> o]
    /\ UNCHANGED <<bdriver, blist, notBind>>

\* which update the engine makes next, and where it stands after it
DeviceTurn ==
    \/ epc.pc \in {"bind", "unbind"} /\ epc.order = "device_first"
    \/ epc.pc \in {"bind2", "unbind2"} /\ epc.order = "driver_first"

DriverTurn ==
    \/ epc.pc \in {"bind", "unbind"} /\ epc.order = "driver_first"
    \/ epc.pc \in {"bind2", "unbind2"} /\ epc.order = "device_first"

Binding == epc.pc \in {"bind", "bind2"}

EngineStep ==
    IF epc.pc \in {"bind", "unbind"}
    THEN [epc EXCEPT !.pc = IF epc.pc = "bind" THEN "bind2" ELSE "unbind2"]
    ELSE EngineIdle

\* TestDevice::set_driver(driver): self.inner.write().set_driver(driver)
BindSetDriver ==
    /\ DeviceTurn
    /\ bdriver' = [bdriver EXCEPT ![epc.d] = IF Binding THEN epc.r ELSE 0]
    /\ epc' = EngineStep
    /\ UNCHANGED <<blist, notBind>>

\* add_device(device), the whole call under the driver's lock
BindAddDevice ==
    /\ DriverTurn
    /\ Binding
    /\ blist' = [blist EXCEPT ![epc.r] =
                    IF AlreadyBound(@, epc.d) THEN @ ELSE Append(@, epc.d)]
    /\ epc' = EngineStep
    /\ UNCHANGED <<bdriver, notBind>>

\* delete_device(device), the whole call under the driver's lock
BindDeleteDevice ==
    /\ DriverTurn
    /\ ~Binding
    /\ blist' = [blist EXCEPT ![epc.r] = RetainOthers(@, epc.d)]
    /\ epc' = EngineStep
    /\ UNCHANGED <<bdriver, notBind>>

NextBind ==
    \/ \E d \in Devices, r \in Drivers, o \in EngineOrders : EngineMatch(d, r, o)
    \/ EngineProbe
    \/ \E d \in Devices, o \in EngineOrders : EngineDetach(d, o)
    \/ BindSetDriver
    \/ BindAddDevice
    \/ BindDeleteDevice

-----------------------------------------------------------------------------
(* The locks of a KObject: `inner` (the data lock) and `kobj_state` (the    *)
(* state lock), as taken by the methods of TestDevice, TestDriver and       *)
(* VirtIODriver                                                             *)

LockKinds == {"TestDevice", "TestDriver", "VirtIODriver"}

\* methods whose body is self.kobj_state.read() / .write()
StateOps == {"kobj_state", "kobj_state_mut", "set_kobj_state"}

\* methods whose body is self.inner.read() ... / self.inner.write() ...
KObjReads == {"inode", "parent", "kset", "kobj_type"}
KObjWrites == {"set_inode", "set_parent", "set_kset", "set_kobj_type"}
DeviceReads == {"bus", "driver"}
DeviceWrites == {"set_bus", "set_class", "set_driver", "class"}
DriverReads == {"devices", "bus", "locked_dynid_list"}
DriverWrites == {"add_device", "delete_device", "set_bus", "add_dynid"}

DataReads(kind) ==
    KObjReads \cup (IF kind = "TestDevice" THEN DeviceReads ELSE DriverReads)
DataWrites(kind) ==
    KObjWrites \cup (IF kind = "TestDevice" THEN DeviceWrites ELSE DriverWrites)
DataOps(kind) == DataReads(kind) \cup DataWrites(kind)
OpsOf(kind) == StateOps \cup DataOps(kind)
AllOps == UNION { OpsOf(kind) : kind \in LockKinds }

\* TestDriver.inner is a SpinLock: every access is exclusive; the other two
\* are RwLocks
DataLock(kind, op) ==
    [lock |-> "data",
     mode |-> IF kind = "TestDriver" \/ op \in DataWrites(kind) THEN "write" ELSE "read"]

StateLock(op) ==
    [lock |-> "state", mode |-> IF op = "kobj_state" THEN "read" ELSE "write"]

\* set_kobj_state takes the data lock before the state lock
LocksOf_StateUnderData(kind, op) ==
    IF op = "set_kobj_state" THEN <<DataLock(kind, "set_parent"), StateLock(op)>>
    ELSE IF op \in StateOps THEN <<StateLock(op)>>
    ELSE <<DataLock(kind, op)>>
\* the locks a method takes, in order
LocksOf(kind, op) ==
    IF op \in StateOps THEN <<StateLock(op)>> ELSE <<DataLock(kind, op)>>

\* kobj_state() and kobj_state_mut() return the guard to the caller
ReturnsGuard(op) == op \in {"kobj_state", "kobj_state_mut"}

FreeLock == [w |-> 0, r |-> {}]

NoThreadCall == [cls |-> "none", todo |-> <<>>, acq |-> {}, keep |-> FALSE,
                 overlap |-> FALSE]

NoneDone == [t |-> 0, cls |-> "none", overlap |-> FALSE]

\* RwLock / SpinLock: a writer needs the lock free, a reader needs no writer
Grantable(req) ==
    IF req.mode = "write"
    THEN locks[req.lock].w = 0 /\ locks[req.lock].r = {}
    ELSE locks[req.lock].w = 0

Holds(t, l) == locks[l].w = t \/ t \in locks[l].r

HeldByOther(t, l) == \E u \in Threads \ {t} : Holds(u, l)

Granted(lk, req, t) ==
    IF req.mode = "write"
    THEN [lk EXCEPT ![req.lock].w = t]
    ELSE [lk EXCEPT ![req.lock].r = @ \cup {t}]

Released(lk, ls, t) ==
    [l \in {"data", "state"} |->
        IF l \in ls
        THEN [w |-> IF lk[l].w = t THEN 0 ELSE lk[l].w, r |-> lk[l].r \ {t}]
        ELSE lk[l]]

\* one object of any of the three types, nobody inside
InitLock ==
    /\ lkind \in LockKinds
    /\ locks = [l \in {"data", "state"} |-> FreeLock]
    /\ lth = [t \in Threads |-> [call |-> NoThreadCall, guard |-> "none"]]
    /\ ldone = NoneDone

\* no object is under test
IdleLock ==
    /\ lkind = "none"
    /\ locks = [l \in {"data", "state"} |-> FreeLock]
    /\ lth = [t \in Threads |-> [call |-> NoThreadCall, guard |-> "none"]]
    /\ ldone = NoneDone

\* thread t calls method op; a thread that still holds a state guard calls
\* data accessors only
LockCall(t, op) ==
    /\ lkind \in LockKinds
    /\ op \in OpsOf(lkind)
    /\ lth[t].call.cls = "none"
    /\ lth[t].guard # "none" => op \notin StateOps
    /\ lth' = [lth EXCEPT ![t].call =
                  [cls |-> IF op \in StateOps THEN "state" ELSE "data",
                   todo |-> LocksOf(lkind, op), acq |-> {},
                   keep |-> ReturnsGuard(op), overlap |-> FALSE]]
    /\ UNCHANGED <<lkind, locks, ldone, notLock>>

\* .read() / .write() / .lock() returns: the thread has the lock
LockAcquire(t) ==
    /\ lth[t].call.cls # "none"
    /\ lth[t].call.todo # <<>>
    /\ LET req == Head(lth[t].call.todo)
       IN  /\ Grantable(req)
           /\ locks' = Granted(locks, req, t)
           /\ lth' = [lth EXCEPT
                        ![t].call.todo = Tail(@),
                        ![t].call.acq = @ \cup {req.lock},
                        ![t].call.overlap =
                            @ \/ (req.lock = "state" /\ HeldByOther(t, "data"))]
    /\ UNCHANGED <<lkind, ldone, notLock>>

\* the method returns: its guards are dropped, but for the guard that
\* kobj_state() / kobj_state_mut() hand to the caller
LockReturn(t) ==
    /\ lth[t].call.cls # "none"
    /\ lth[t].call.todo = <<>>
    /\ LET c == lth[t].call
           kept == IF c.keep THEN {"state"} ELSE {}
       IN  /\ locks' = Released(locks, c.acq \ kept, t)
           /\ lth' = [lth EXCEPT
                        ![t].call = NoThreadCall,
                        ![t].guard = IF c.keep
                                     THEN (IF locks["state"].w = t THEN "write" ELSE "read")
                                     ELSE @]
           /\ ldone' = [t |-> t, cls |-> c.cls,
                        overlap |-> c.overlap /\ HeldByOther(t, "data")]
    /\ UNCHANGED <<lkind, notLock>>

\* the caller drops the guard it got from kobj_state() / kobj_state_mut()
DropGuard(t) ==
    /\ lth[t].call.cls = "none"
    /\ lth[t].guard # "none"
    /\ locks' = Released(locks, {"state"}, t)
    /\ lth' = [lth EXCEPT ![t].guard = "none"]
    /\ UNCHANGED <<lkind, ldone, notLock>>

NextLock ==
    \/ \E t \in Threads, op \in AllOps : LockCall(t, op)
    \/ \E t \in Threads : LockAcquire(t)
    \/ \E t \in Threads : LockReturn(t)
    \/ \E t \in Threads : DropGuard(t)

-----------------------------------------------------------------------------
(* The Hello attribute: impl Attribute for Hello *)

\* format!("Hello Pci") as bytes
HelloText == <<72, 101, 108, 108, 111, 32, 80, 99, 105>>

\* bytes a fresh buffer may be filled with
FillBytes == {0, 255}

NoAttrRet == [fn |-> "none", res |-> "none", n |-> 0, tag |-> ""]

\* sysfs_emit_str(buf, text): the text serialised into the front of buf and
\* the number of bytes written, or an error if buf is too small
sysfs_emit_str(buf, text) ==
    IF Len(buf) < Len(text)
    THEN [res |-> "Err", n |-> 0, buf |-> buf]
    ELSE [res |-> "Ok", n |-> Len(text),
          buf |-> [k \in 1..Len(buf) |-> IF k <= Len(text) THEN text[k] ELSE buf[k]]]

\* a caller with a buffer of any length up to MaxBuf
InitAttr ==
    /\ \E len \in 0..MaxBuf, f \in FillBytes : abuf = [k \in 1..len |-> f]
    /\ apc = "ready"
    /\ aret = NoAttrRet

\* no attribute is under test
IdleAttr ==
    /\ abuf = <<>>
    /\ apc = "idle"
    /\ aret = NoAttrRet

\* Hello::mode(): SYSFS_ATTR_MODE_RO
mode ==
    /\ apc = "ready"
    /\ aret' = [fn |-> "mode", res |-> "Ok", n |-> 0, tag |-> "SYSFS_ATTR_MODE_RO"]
    /\ UNCHANGED <<abuf, apc, notAttr>>

\* Hello::support(): SysFSOpsSupport::ATTR_SHOW
support ==
    /\ apc = "ready"
    /\ aret' = [fn |-> "support", res |-> "Ok", n |-> 0, tag |-> "ATTR_SHOW"]
    /\ UNCHANGED <<abuf, apc, notAttr>>

\* Hello::show(_kobj, _buf): sysfs_emit_str(_buf, &format!("Hello Pci"))
show ==
    /\ apc = "ready"
    /\ LET r == sysfs_emit_str(abuf, HelloText)
       IN  /\ abuf' = r.buf
           /\ aret' = [fn |-> "show", res |-> r.res, n |-> r.n,
                       tag |-> IF r.res = "Err" THEN "TooSmall" ELSE ""]
    /\ UNCHANGED <<apc, notAttr>>

\* Hello::store(_kobj, _buf): todo!(), which panics; nothing is returned
store ==
    /\ apc = "ready"
    /\ apc' = "panic"
    /\ aret' = [fn |-> "store", res |-> "none", n |-> 0, tag |-> "panic"]
    /\ UNCHANGED <<abuf, notAttr>>

NextAttr ==
    \/ mode
    \/ support
    \/ show
    \/ store

-----------------------------------------------------------------------------
(* virtio_probe *)

InitProbe ==
    /\ pciList \in SeqsUpTo(PciKinds, MaxPci)
    /\ pciLock = "free"
    /\ pc = "start"
    /\ virtio_list = <<>>
    /\ add = 0
    /\ cur = 0
    /\ transport = NoTransport
    /\ attempts = <<>>
    /\ inits = <<>>
    /\ calls = <<>>
    /\ errLog = <<>>
    /\ warnLog = <<>>
    /\ mmio_result = "none"
    /\ probe_result = "none"

\* the probing thread has not been started
IdleProbe ==
    /\ pciList = <<>>
    /\ pciLock = "free"
    /\ pc = "idle"
    /\ virtio_list = <<>>
    /\ add = 0
    /\ cur = 0
    /\ transport = NoTransport
    /\ attempts = <<>>
    /\ inits = <<>>
    /\ calls = <<>>
    /\ errLog = <<>>
    /\ warnLog = <<>>
    /\ mmio_result = "none"
    /\ probe_result = "none"

\* virtio_probe calls virtio_probe_pci, which takes the write lock, searches
\* (the unwrap in the search panics on an entry that is no general device),
\* reverses the result and zeroes the index.
ProbePciEnter ==
    /\ pc = "start"
    /\ pciLock = "free"
    /\ pciLock' = "write"
    /\ IF SearchPanics(pciList)
       THEN /\ pc' = "panic"
            /\ virtio_list' = <<>>
       ELSE /\ pc' = "loop"
            /\ virtio_list' = Reverse(virtio_device_search(pciList))
    /\ add' = 0
    /\ UNCHANGED <<notProbe, probeOut, pciList, cur, transport, attempts, inits, calls, errLog, warnLog>>

\* the loop takes its next candidate and calls PciTransport::new
TransportNew ==
    /\ pc = "loop"
    /\ virtio_list # <<>>
    /\ cur' = Head(virtio_list)
    /\ virtio_list' = Tail(virtio_list)
    /\ pc' = "new"
    /\ UNCHANGED <<notProbe, probeOut, pciList, pciLock, add, transport, attempts, inits, calls, errLog, warnLog>>

\* PciTransport::new returns o; the match arm runs up to its next call
TransportResult(o) ==
    /\ pc = "new"
    /\ attempts' = Append(attempts, [pos |-> cur, index |-> add, res |-> o])
    /\ IF o = "Err"
       THEN /\ errLog' = Append(errLog, cur)
            /\ transport' = NoTransport
            /\ IF IsDebugDevice(cur)
               THEN pc' = "spin_err" /\ add' = add
               ELSE pc' = "loop" /\ add' = add + 1
       ELSE /\ errLog' = errLog
            /\ add' = add
            /\ IF IsDebugDevice(cur)
               THEN pc' = "spin_ok" /\ transport' = NoTransport
               ELSE pc' = "init" /\ transport' = [pos |-> cur, dtype |-> o]
    /\ UNCHANGED <<notProbe, probeOut, pciList, pciLock, virtio_list, cur, inits, calls, warnLog>>

\* virtio_device_init: the match on device_type()
virtio_device_init ==
    /\ pc = "init"
    /\ inits' = Append(inits, transport)
    /\ CASE transport.dtype = "Block" ->
              /\ calls' = Append(calls, [entry |-> "virtio_blk", pos |-> transport.pos,
                                         dev_id |-> pciList[cur].device_id])
              /\ pc' = "blk"
              /\ UNCHANGED <<warnLog, add>>
         [] transport.dtype = "Network" ->
              /\ calls' = Append(calls, [entry |-> "virtio_net", pos |-> transport.pos,
                                         dev_id |-> pciList[cur].device_id])
              /\ pc' = "net"
              /\ UNCHANGED <<warnLog, add>>
         [] OTHER ->
              /\ warnLog' = Append(warnLog, transport.pos)
              /\ add' = add + 1
              /\ pc' = "loop"
              /\ UNCHANGED calls
    /\ transport' = NoTransport
    /\ UNCHANGED <<notProbe, probeOut, pciList, pciLock, virtio_list, cur, attempts, errLog>>

\* virtio_blk / virtio_net returns; the iteration ends with add += 1
EntryReturn ==
    /\ pc \in {"blk", "net"}
    /\ add' = add + 1
    /\ pc' = "loop"
    /\ UNCHANGED <<notProbe, probeOut, pciList, pciLock, virtio_list, cur, transport, attempts, inits,
                   calls, errLog, warnLog>>

\* the loop is over: virtio_probe_pci returns and its guard is dropped
ProbePciReturn ==
    /\ pc = "loop"
    /\ virtio_list = <<>>
    /\ pciLock' = "free"
    /\ pc' = "mmio"
    /\ UNCHANGED <<notProbe, probeOut, pciList, virtio_list, add, cur, transport, attempts, inits, calls,
                   errLog, warnLog>>

\* what the platform MMIO probing step may report
MmioOutcomes == {"Ok", "Err"}

\* pub fn virtio_probe() has no return type and calls virtio_probe_mmio()
\* as a statement: whatever the step reports, the caller gets the unit value
virtio_probe_outcome(m) == "unit"

\* virtio_probe_mmio runs, reporting m, and virtio_probe returns
ProbeMmio(m) ==
    /\ pc = "mmio"
    /\ pc' = "done"
    /\ mmio_result' = m
    /\ probe_result' = virtio_probe_outcome(m)
    /\ UNCHANGED <<notProbe, pciList, pciLock, virtio_list, add, cur, transport, attempts, inits,
                   calls, errLog, warnLog>>

\* loop{} : one more turn of the empty loop, which changes nothing and
\* never exits
Spin ==
    /\ pc \in {"spin_ok", "spin_err"}
    /\ UNCHANGED <<probeVars, notProbe>>

NextProbe ==
    \/ ProbePciEnter
    \/ TransportNew
    \/ \E o \in Outcomes : TransportResult(o)
    \/ virtio_device_init
    \/ EntryReturn
    \/ ProbePciReturn
    \/ \E m \in MmioOutcomes : ProbeMmio(m)
    \/ Spin

InitSpecProbe == InitProbe /\ IdleDrv /\ IdleDev /\ IdleAttr /\ IdlePci /\ IdleBind /\ IdleLock

SpecProbe == InitSpecProbe /\ [][NextProbe]_vars

\* the thread running virtio_probe is never suspended for good
FairSpecProbe == SpecProbe /\ WF_vars(NextProbe)

\* threads calling add_device / delete_device on one driver
InitSpecDrv == InitDrv /\ IdleProbe /\ IdleDev /\ IdleAttr /\ IdlePci /\ IdleBind /\ IdleLock

SpecDrv == InitSpecDrv /\ [][NextDrv]_vars

\* one device, its callers, and the owners of what it refers to
InitSpecDev == InitDev /\ IdleProbe /\ IdleDrv /\ IdleAttr /\ IdlePci /\ IdleBind /\ IdleLock

SpecDev == InitSpecDev /\ [][NextDev]_vars

\* one caller of the Hello attribute with its buffer
InitSpecAttr == InitAttr /\ IdleProbe /\ IdleDrv /\ IdleDev /\ IdlePci /\ IdleBind /\ IdleLock

SpecAttr == InitSpecAttr /\ [][NextAttr]_vars

\* one driver and a single caller of its PciDriver / Driver / KObject methods
InitSpecPci == InitPci /\ IdleProbe /\ IdleDrv /\ IdleDev /\ IdleAttr /\ IdleBind /\ IdleLock

SpecPci == InitSpecPci /\ [][NextPci]_vars

\* the binding engine at work on registered devices and drivers
InitSpecBind == InitBind /\ IdleProbe /\ IdleDrv /\ IdleDev /\ IdleAttr /\ IdlePci /\ IdleLock

SpecBind == InitSpecBind /\ [][NextBind]_vars

\* threads calling the KObject, Device and Driver methods of one object
InitSpecLock ==
    InitLock /\ IdleProbe /\ IdleDrv /\ IdleDev /\ IdleAttr /\ IdlePci /\ IdleBind

SpecLock == InitSpecLock /\ [][NextLock]_vars

-----------------------------------------------------------------------------
(* Vocabulary of the probing claims *)

Candidates == { virtio_device_search(pciList)[k] : k \in 1..Len(virtio_device_search(pciList)) }
Attempted == { attempts[k].pos : k \in 1..Len(attempts) }
Failed == { attempts[k].pos : k \in { j \in 1..Len(attempts) : attempts[j].res = "Err" } }
Constructed == Attempted \ Failed
HandedToInit == { inits[k].pos : k \in 1..Len(inits) }
ErrCount(p) == Cardinality({ k \in 1..Len(errLog) : errLog[k] = p })
CallCount(e, p) ==
    Cardinality({ k \in 1..Len(calls) : calls[k].entry = e /\ calls[k].pos = p })
ResultOf(p) == attempts[CHOOSE k \in 1..Len(attempts) : attempts[k].pos = p].res
Hung == pc \in {"spin_ok", "spin_err"}
PciReturned == pc \in {"mmio", "done"}
\* the iteration of candidate p has constructed its transport and not yet
\* reached the match of virtio_device_init
BeforeDispatch(p) == pc = "init" /\ cur = p

\* C1 (as claimed): when exactly one candidate's transport construction has
\* failed, probing does not hang, that candidate has exactly one logged
\* failure, and once virtio_probe_pci has returned every other candidate was
\* attempted and every constructed transport was handed to virtio_device_init.
C1_ProbeFaultIsolation ==
    Cardinality(Failed) = 1 =>
        /\ ~Hung
        /\ \A p \in Failed : ErrCount(p) = 1
        /\ PciReturned =>
              /\ Attempted = Candidates
              /\ Constructed \subseteq HandedToInit

\* C2 (as claimed): virtio_probe_pci eventually returns, so virtio_probe goes
\* on to MMIO probing.
C2_PciProbingTerminates == <>PciReturned

\* C3 (as claimed): every successfully constructed transport is dispatched:
\* virtio_blk exactly once for Block, virtio_net exactly once for Network,
\* with the candidate's device id, no entry point for any other type, and no
\* error is logged for it.
C3_DeviceTypeDispatch ==
    \A p \in Constructed :
        \/ BeforeDispatch(p)
        \/ /\ CallCount("virtio_blk", p) = (IF ResultOf(p) = "Block" THEN 1 ELSE 0)
           /\ CallCount("virtio_net", p) = (IF ResultOf(p) = "Network" THEN 1 ELSE 0)
           /\ \A k \in 1..Len(calls) :
                 calls[k].pos = p => calls[k].dev_id = pciList[p].device_id
           /\ ErrCount(p) = 0
           /\ p \in HandedToInit

\* C4 (as claimed): the write lock on the PCI device list is not held while
\* PciTransport::new, virtio_device_init or a subsystem entry point executes.
C4_LockReleasedBeforeConstruction ==
    pc \in {"new", "init", "blk", "net"} => pciLock = "free"

-----------------------------------------------------------------------------
(* Vocabulary of the bound-device claims *)

Elems(list) == { list[i] : i \in 1..Len(list) }
Occurrences(list, d) == Cardinality({ i \in 1..Len(list) : list[i] = d })
\* the driver's lock serialises the calls: ops[1] and ops[2], when both are
\* there, are two calls in a row on the driver
TwoInARow(op1, op2) ==
    /\ Len(ops) = 2
    /\ ops[1].op = op1
    /\ ops[2].op = op2
    /\ ops[1].dev = ops[2].dev

\* C5: after add_device(D) twice in a row on a driver (of either kind), D is
\* in the bound-device list exactly once and the second call changed nothing.
C5_IdempotentAdd ==
    TwoInARow("add", "add") =>
        /\ Occurrences(ops[2].after, ops[2].dev) = 1
        /\ ops[2].after = ops[1].after
        /\ ops[2].after = ops[2].before

\* C5 witness: add_device(D) has been called twice in a row while another
\* device was bound as well.
C5_Witness ==
    /\ TwoInARow("add", "add")
    /\ Len(ops[2].after) >= 2

\* C6: whatever the interleaving of add_device and delete_device calls of the
\* threads, no device occurs twice in the bound-device list.
C6_NoDuplicates ==
    \A d \in Devices : Occurrences(devices, d) <= 1

\* C6 witness: a thread is inside add_device for a device that another
\* thread has bound before, with the list full.
C6_Witness ==
    \E t \in Threads :
        /\ tpc[t] = "add_check"
        /\ targ[t] \in Elems(devices)
        /\ Len(devices) = NumDevices
        /\ Len(ops) >= 1
        /\ ops[Len(ops)].thread # t

\* C7 (as claimed): add_device(D) followed by delete_device(D) restores the
\* list found before the add, also when D was already bound.
C7_SymmetricRemoval ==
    TwoInARow("add", "delete") => ops[2].after = ops[1].before

\* C7 (amended): add_device(D) followed by delete_device(D) restores the list
\* found before the add provided D was not bound before the add; if D was
\* bound, the add changes nothing and the delete removes D.
C7_SymmetricRemovalWhenAbsent ==
    TwoInARow("add", "delete") =>
        /\ ops[1].dev \notin Elems(ops[1].before) => ops[2].after = ops[1].before
        /\ ops[1].dev \in Elems(ops[1].before) =>
              /\ ops[1].after = ops[1].before
              /\ Elems(ops[2].after) = Elems(ops[1].before) \ {ops[1].dev}
              /\ Len(ops[2].after) = Len(ops[1].before) - 1

\* C7 witness: a device not bound before was added to a non-empty list and
\* then deleted.
C7_Witness ==
    /\ TwoInARow("add", "delete")
    /\ ops[1].dev \notin Elems(ops[1].before)
    /\ ops[1].before # <<>>

\* C8: delete_device(D) on a driver that does not hold D leaves the list's
\* size, contents and order as they were.
C8_DeleteAbsentIsNoop ==
    \A k \in 1..Len(ops) :
        (ops[k].op = "delete" /\ ops[k].dev \notin Elems(ops[k].before)) =>
            ops[k].after = ops[k].before

\* C8 witness: delete_device of an absent device was called on a non-empty list.
C8_Witness ==
    \E k \in 1..Len(ops) :
        /\ ops[k].op = "delete"
        /\ ops[k].dev \notin Elems(ops[k].before)
        /\ ops[k].before # <<>>

-----------------------------------------------------------------------------
(* The weak-reference claims *)

KindOf(f) == CASE f = "bus" -> "bus" [] f = "class" -> "class" [] f = "driver" -> "driver"

\* C9: when the device's driver field weakly refers to a driver R, driver()
\* returns none if R had been destroyed by the time of the call, and
\* otherwise a strong handle to R itself, which is not destroyed while the
\* caller holds it; never a handle to a destroyed or to another driver.
C9_WeakUpgradeSafety ==
    (ret.fn = "driver" /\ ret.field # 0) =>
        /\ ret.val \in {0, ret.field}
        /\ ret.stale <=> ret.val = 0
        /\ ret.val # 0 =>
              /\ ret.handle = "strong"
              /\ ret.val \notin destroyed["driver"]
              /\ strong["driver"][ret.val] >= 1

\* C9 witness: driver() was called on a device whose driver had been
\* destroyed, while another driver is still alive, and returned none.
C9_Witness ==
    /\ ret.fn = "driver"
    /\ ret.stale
    /\ ret.val = 0
    /\ \E j \in Objs("driver") : j # ret.field /\ j \notin destroyed["driver"]

\* C10 (as claimed): each of bus(), driver() and class(), called when the
\* stored weak reference refers to a destroyed object, returns none and
\* leaves the device's field absent.
C10_StaleCompaction ==
    (ret.fn \in {"bus", "driver", "class"} /\ ret.stale) =>
        /\ ret.val = 0
        /\ inner[KindOf(ret.fn)] = 0

\* C10 (amended): called on a stale reference, class() returns none and
\* clears the class field; driver() returns none and leaves the driver field
\* holding the stale reference; bus() does not upgrade: it returns the stored
\* weak reference itself and leaves the bus field as it is.
C10_StaleCompactionClassOnly ==
    /\ (ret.fn = "class" /\ ret.stale) =>
          /\ ret.val = 0
          /\ inner.class = 0
    /\ (ret.fn = "driver" /\ ret.stale) =>
          /\ ret.val = 0
          /\ inner.driver = ret.field
    /\ (ret.fn = "bus" /\ ret.stale) =>
          /\ ret.val = ret.field
          /\ ret.handle = "weak"
          /\ inner.bus = ret.field

\* C10 witness: class() has just been called on a device whose class had
\* been destroyed.
C10_Witness ==
    /\ ret.fn = "class"
    /\ ret.stale
    /\ inner.class = 0
    /\ ret.field \in destroyed["class"]

\* the search has returned and no candidate has been taken from its result
SearchJustReturned == pc = "loop" /\ attempts = <<>> /\ cur = 0
\* the entries the filter is meant to keep, by position
InVirtioRange(i) ==
    /\ pciList[i].vendor_id = 6900
    /\ pciList[i].device_id >= 4096
    /\ pciList[i].device_id <= 4159
ExpectedCandidates == { i \in 1..Len(pciList) : InVirtioRange(i) }
\* virtio_list holds the result reversed: list order is decreasing position
StrictlyDecreasing(s) == \A j, k \in 1..Len(s) : j < k => s[j] > s[k]

\* C16 (as claimed): whatever the PCI device list holds, entries of vendor
\* 0x1AF4 that are not general devices included, probing never panics.
C16_NoPanicDuringProbing == pc # "panic"

\* C17: the k-th construction attempt (k from 0) is made on the k-th
\* candidate of the reversed discovery order and receives probe index k,
\* whether the attempts before it succeeded or failed.
C17_ProbeOrderAndIndex ==
    /\ \A k \in 1..Len(attempts) :
          /\ attempts[k].pos \in ExpectedCandidates
          /\ { i \in ExpectedCandidates : i > attempts[k].pos }
                = { attempts[j].pos : j \in 1..(k - 1) }
          /\ attempts[k].index = k - 1
    /\ \A j, k \in 1..Len(attempts) :
          j # k => attempts[j].index # attempts[k].index

\* C17 witness: two candidates have been attempted, the first attempt failed.
C17_Witness ==
    /\ Len(attempts) = 2
    /\ attempts[1].res = "Err"
    /\ attempts[2].index = 1
    /\ attempts[1].pos > attempts[2].pos

\* C18: when virtio_device_search returns, its result holds exactly the
\* entries of vendor 0x1AF4 with 0x1000 <= device ID <= 0x103F, each once
\* and in list order (seen reversed in virtio_list), and only such entries
\* are passed to construction.
C18_CandidateFilter ==
    /\ SearchJustReturned =>
          /\ { virtio_list[k] : k \in 1..Len(virtio_list) } = ExpectedCandidates
          /\ Len(virtio_list) = Cardinality(ExpectedCandidates)
          /\ StrictlyDecreasing(virtio_list)
    /\ Attempted \subseteq ExpectedCandidates
    /\ cur # 0 => cur \in ExpectedCandidates

\* C18 witness: the search has returned on a list that holds the device IDs
\* 0x103F and 0x1040 of the VirtIO vendor.
C18_Witness ==
    /\ SearchJustReturned
    /\ \E i, j \in 1..Len(pciList) :
          /\ pciList[i].vendor_id = 6900 /\ pciList[i].device_id = 4159
          /\ pciList[j].vendor_id = 6900 /\ pciList[j].device_id = 4160
    /\ Len(virtio_list) = 1

-----------------------------------------------------------------------------
(* Claims about the matching gate of a device *)

\* C19: after set_can_match(b), can_match() returns b until the next
\* set_can_match call; after set_can_match(false) it returns false.
C19_CanMatchFollowsSetter ==
    (ret.fn = "can_match" /\ requested # "none")
        => ret.val = BoolVal(requested = "true")

-----------------------------------------------------------------------------
(* Claims about the attribute layer *)

\* the bytes of text are at the front of buf
WrittenAtFront(buf, text) ==
    /\ Len(buf) >= Len(text)
    /\ \A k \in 1..Len(text) : buf[k] = text[k]

\* C11: for the Hello attribute, whose support set is exactly {show}, store
\* returns an Unsupported error to the caller without panicking, and show
\* with a sufficiently large buffer succeeds and returns the number of bytes
\* written.
C11_CapabilityGating ==
    /\ apc # "panic"
    /\ aret.fn = "store" => (aret.res = "Err" /\ aret.tag = "Unsupported")
    /\ (aret.fn = "show" /\ Len(abuf) >= Len(HelloText))
          => (aret.res = "Ok" /\ aret.n = Len(HelloText)
                /\ WrittenAtFront(abuf, HelloText))

-----------------------------------------------------------------------------
(* Claims about the PciDriver contract *)

\* position of the first rule of list that matches I (0: no match)
FirstMatch(list, I) ==
    IF \E k \in 1..Len(list) : list[k] = I
    THEN CHOOSE k \in 1..Len(list) :
            list[k] = I /\ \A j \in 1..(k - 1) : list[j] # I
    ELSE 0

\* the identifications a device may present: every rule value, and one that
\* no rule has
Identifications == DynIds \cup {0}

\* C13: add_dynid(id) always returns success and appends exactly one rule at
\* the end of the dynamic-ID list: afterwards locked_dynid_list() is the
\* previous list followed by id, also when an equal rule is already there.
C13_AddDynidAppends ==
    plast.op = "add_dynid"
        => /\ plast.res = "Ok"
           /\ id_list(pd) = Append(plast.dyn_before, plast.arg)
           /\ Len(id_list(pd)) = Len(plast.dyn_before) + 1

\* C13 witness: add_dynid has returned for a rule equal to one already listed
C13_Witness ==
    /\ plast.op = "add_dynid"
    /\ \E k \in 1..Len(plast.dyn_before) : plast.dyn_before[k] = plast.arg

\* C14: two calls of locked_dynid_list() with no add_dynid between them,
\* whatever other operations ran between them, return equal sequences, so a
\* first-match scan for any identification gives the same rule or no match.
C14_MatchingDeterminism ==
    Len(psnap) = 2
        => /\ psnap[1] = psnap[2]
           /\ \A I \in Identifications :
                 FirstMatch(psnap[1], I) = FirstMatch(psnap[2], I)

\* C14 witness: a second locked_dynid_list() has returned, with no add_dynid
\* since the first, a list in which some identification matches the second
\* rule only, on a driver that has been given a device and a bus
C14_Witness ==
    /\ plast.op = "locked_dynid_list"
    /\ Len(psnap) = 2
    /\ \E I \in Identifications : FirstMatch(psnap[2], I) = 2
    /\ pd.devices # <<>>
    /\ pd.bus # 0

\* C15: probe, remove, suspend, resume and shutdown leave the bound-device
\* list as it was, and no call other than delete_device takes a device off it.
C15_HooksKeepDevices ==
    /\ plast.op \in Hooks => (pd.devices = plast.dev_before /\ plast.res = "Ok")
    /\ (plast.op # "delete_device" /\ plast.op # "none")
          => Elems(plast.dev_before) \subseteq Elems(pd.devices)

\* C15 witness: a hook has returned on a driver with two bound devices
C15_Witness ==
    /\ plast.op \in Hooks
    /\ Len(plast.dev_before) = 2

-----------------------------------------------------------------------------
(* Claims about binding *)

\* C12: in every reachable state, intermediate ones included, a device's
\* driver field refers to driver R exactly if the device is in R's
\* bound-device list.
C12_BindConsistency ==
    \A d \in Devices, r \in Drivers :
        (bdriver[d] = r) <=> (d \in Elems(blist[r]))

-----------------------------------------------------------------------------
(* Claims about the two locks of a KObject *)

\* thread t is inside a call and waits for a lock it cannot have now
Blocked(t) ==
    /\ lth[t].call.cls # "none"
    /\ lth[t].call.todo # <<>>
    /\ ~Grantable(Head(lth[t].call.todo))

\* u holds, in a conflicting mode, the lock that the blocked thread t waits for
Blocks(u, t) ==
    /\ Blocked(t)
    /\ LET req == Head(lth[t].call.todo)
       IN  IF req.mode = "write" THEN Holds(u, req.lock) ELSE locks[req.lock].w = u

\* a set of threads each of which waits for a lock held inside the set
Deadlocked(S) == S # {} /\ \A t \in S : \E u \in S : Blocks(u, t)

\* C20: a state accessor takes only the state lock and a data accessor only
\* the data lock, so a state accessor waits for nothing but the state lock
\* (it completes while another thread holds the data lock), and no
\* interleaving of the calls of several threads deadlocks.
C20_StateLockIndependence ==
    /\ \A t \in Threads :
          /\ lth[t].call.cls = "state" => lth[t].call.acq \subseteq {"state"}
          /\ lth[t].call.cls = "data" => lth[t].call.acq \subseteq {"data"}
          /\ (Blocked(t) /\ lth[t].call.cls = "state")
                => Head(lth[t].call.todo).lock = "state"
          /\ (Blocked(t) /\ lth[t].call.cls = "data")
                => Head(lth[t].call.todo).lock = "data"
    /\ \A S \in SUBSET Threads : ~Deadlocked(S)

\* C20 witness: a state accessor has taken the state lock and returned while
\* another thread held the data lock throughout
C20_Witness ==
    /\ ldone.cls = "state"
    /\ ldone.overlap

-----------------------------------------------------------------------------
(* Claims about the outcome of virtio_probe *)

\* C21: when the platform MMIO probing step reports an error, virtio_probe
\* returns that error to its caller.
C21_MmioErrorPropagated ==
    (pc = "done" /\ mmio_result = "Err") => probe_result = "Err"

-----------------------------------------------------------------------------
(* The frame of add_device and delete_device *)

\* position of x in a list that holds it
Pos(list, x) == CHOOSE k \in 1..Len(list) : list[k] = x

\* a holds the entries of b other than d, each once, in the order of b
OthersKeptInOrder(b, a, d) ==
    /\ Elems(a) = Elems(b) \ {d}
    /\ Len(a) = Cardinality(Elems(b) \ {d})
    /\ \A i, j \in 1..Len(b) :
          (i < j /\ b[i] # d /\ b[j] # d) => Pos(a, b[i]) < Pos(a, b[j])

\* a is b with d after all its entries
PlacedLast(b, a, d) ==
    /\ Len(a) = Len(b) + 1
    /\ \A k \in 1..Len(b) : a[k] = b[k]
    /\ a[Len(a)] = d

\* C22: delete_device(D) removes only D, every other device staying in the
\* list in the same relative order, and add_device of a device not in the
\* list places it after all existing entries without reordering them.
C22_OthersUntouched ==
    \A k \in 1..Len(ops) :
        /\ ops[k].op = "delete"
              => OthersKeptInOrder(ops[k].before, ops[k].after, ops[k].dev)
        /\ (ops[k].op = "add" /\ ops[k].dev \notin Elems(ops[k].before))
              => PlacedLast(ops[k].before, ops[k].after, ops[k].dev)

\* C22 witness: a new device was added to a list of two, and then the first
\* device of the list was deleted, two others remaining
C22_Witness ==
    /\ Len(ops) = 2
    /\ ops[1].op = "add"
    /\ ops[1].dev \notin Elems(ops[1].before)
    /\ Len(ops[1].before) = 2
    /\ ops[2].op = "delete"
    /\ ops[2].before[1] = ops[2].dev
    /\ Len(ops[2].after) = 2

====
